---------------------------- MODULE Spec2Model ----------------------------
(***************************************************************************)
(* A model of cb-simulation-util: the plant elements PT0, PT1 and PT2 (in  *)
(* their f64 and fixed-point i32 variants), the Hysteresis transfer        *)
(* function with its builder, and the boxed (type-erased) handle with      *)
(* clone and equality.                                                     *)
(*                                                                         *)
(* Numbers.  An f64 is modelled as an exact rational n/d (d > 0, reduced), *)
(* or +inf, -inf or NaN.  The inputs the model draws are dyadic rationals  *)
(* of small magnitude, on which IEEE arithmetic is exact, so the rational  *)
(* result is the f64 result.  Signed zero is not distinguished.            *)
(* An i32 or i64 is an integer; where a product or sum can leave the range *)
(* TLC's integers have, it is computed on digit sequences (base 2^10).     *)
(***************************************************************************)
EXTENDS Integers, Sequences, FiniteSets, TLC

-----------------------------------------------------------------------------
(* Bounds of the model *)

\* the number of transfer calls made on one element in a run
MaxSteps == 4

\* the number of transfer_td calls made on one PT2 in a run: the exact values
\* of an element with a large damping stay within the model's integers
MaxPT2Steps == 2

\* the number of setter calls made on one element in a run
MaxSetterCalls == 2

\* the number of setter calls made on one PT0 in a run: enough to set a
\* delay, shorten it and lengthen it again
MaxDelaySetterCalls == 3

\* the number of transfer_td calls made through handles in a run
MaxHandleSteps == 3

\* the number of setter calls made on one TimeRange
MaxRangeCalls == 3

\* the number of values an iteration of a TimeRange is followed for
MaxItems == 12

\* the number of calls made on one HysteresisBuilder before build()
MaxBuilderCalls == 2

-----------------------------------------------------------------------------
(* f64 values *)

Abs(x) == IF x < 0 THEN -x ELSE x

Sign(x) == IF x < 0 THEN -1 ELSE IF x > 0 THEN 1 ELSE 0

RECURSIVE Gcd(_, _)
Gcd(a, b) == IF b = 0 THEN a ELSE Gcd(b, a % b)

Lcm(a, b) == (a \div Gcd(a, b)) * b

\* the rational n/d, d # 0, reduced and with a positive denominator
Fin(n, d) ==
    LET g == Gcd(Abs(n), Abs(d))
        s == IF d < 0 THEN -1 ELSE 1
    IN  [k |-> "fin", n |-> s * (n \div g), d |-> s * (d \div g)]

F(i) == [k |-> "fin", n |-> i, d |-> 1]

PInf == [k |-> "inf", n |-> 1, d |-> 0]
NInf == [k |-> "inf", n |-> -1, d |-> 0]
NaN == [k |-> "nan", n |-> 0, d |-> 0]

Inf(s) == IF s < 0 THEN NInf ELSE PInf

IsNaN(a) == a.k = "nan"
IsFin(a) == a.k = "fin"

\* f64 ==, <, <=, >, >= : every comparison with NaN is false
FEq(a, b) == ~IsNaN(a) /\ ~IsNaN(b) /\ a = b

FLt(a, b) ==
    /\ ~IsNaN(a) /\ ~IsNaN(b)
    /\ IF IsFin(a) /\ IsFin(b) THEN a.n * (Lcm(a.d, b.d) \div a.d) < b.n * (Lcm(a.d, b.d) \div b.d)
       ELSE IF IsFin(a) THEN b = PInf
       ELSE IF IsFin(b) THEN a = NInf
       ELSE a = NInf /\ b = PInf

FLe(a, b) == FLt(a, b) \/ FEq(a, b)
FGt(a, b) == FLt(b, a)
FGe(a, b) == FLe(b, a)

FNeg(a) ==
    IF IsNaN(a) THEN NaN
    ELSE IF IsFin(a) THEN [k |-> "fin", n |-> -a.n, d |-> a.d]
    ELSE Inf(-a.n)

FAdd(a, b) ==
    IF IsNaN(a) \/ IsNaN(b) THEN NaN
    ELSE IF IsFin(a) /\ IsFin(b)
         THEN LET l == Lcm(a.d, b.d)
              IN  Fin(a.n * (l \div a.d) + b.n * (l \div b.d), l)
    ELSE IF IsFin(a) THEN b
    ELSE IF IsFin(b) THEN a
    ELSE IF a = b THEN a ELSE NaN

FSub(a, b) == FAdd(a, FNeg(b))

FMul(a, b) ==
    IF IsNaN(a) \/ IsNaN(b) THEN NaN
    ELSE IF IsFin(a) /\ IsFin(b)
         THEN LET g == Gcd(Abs(a.n), b.d)
                  h == Gcd(Abs(b.n), a.d)
              IN  Fin((a.n \div g) * (b.n \div h), (a.d \div h) * (b.d \div g))
    ELSE IF a.n = 0 \/ b.n = 0 THEN NaN
    ELSE Inf(Sign(a.n) * Sign(b.n))

FDiv(a, b) ==
    IF IsNaN(a) \/ IsNaN(b) THEN NaN
    ELSE IF IsFin(a) /\ IsFin(b)
         THEN IF b.n # 0 THEN Fin(a.n * b.d, a.d * b.n)
              ELSE IF a.n = 0 THEN NaN ELSE Inf(Sign(a.n))
    ELSE IF IsFin(a) THEN F(0)
    ELSE IF IsFin(b) THEN Inf(Sign(a.n) * (IF b.n < 0 THEN -1 ELSE 1))
    ELSE NaN

\* the integer part of a finite value, rounded towards zero
FTrunc(a) == Sign(a.n) * (Abs(a.n) \div a.d)

-----------------------------------------------------------------------------
(* i32 and i64 values.  A wide integer is a sign and a magnitude, the       *)
(* magnitude a sequence of base-2^10 digits, least significant first,       *)
(* without leading zeros; it stands for the exact i64 (or wider) value of   *)
(* an intermediate result.                                                  *)

FIX_KOMMA_SHIFT_BITS == 10
FIX_KOMMA_SHIFT == 2 ^ FIX_KOMMA_SHIFT_BITS

I32Max == 2147483647
I32Min == -I32Max - 1

RECURSIVE MagFromNat(_)
MagFromNat(x) ==
    IF x = 0 THEN <<>>
    ELSE <<x % FIX_KOMMA_SHIFT>> \o MagFromNat(x \div FIX_KOMMA_SHIFT)

RECURSIVE MagStrip(_)
MagStrip(m) ==
    IF m = <<>> THEN <<>>
    ELSE IF m[Len(m)] = 0 THEN MagStrip(SubSeq(m, 1, Len(m) - 1))
    ELSE m

RECURSIVE MagAddC(_, _, _)
MagAddC(a, b, c) ==
    IF a = <<>> /\ b = <<>> THEN (IF c = 0 THEN <<>> ELSE <<c>>)
    ELSE LET x == IF a = <<>> THEN 0 ELSE Head(a)
             y == IF b = <<>> THEN 0 ELSE Head(b)
             t == x + y + c
         IN  <<t % FIX_KOMMA_SHIFT>>
               \o MagAddC(IF a = <<>> THEN a ELSE Tail(a),
                          IF b = <<>> THEN b ELSE Tail(b),
                          t \div FIX_KOMMA_SHIFT)

MagAdd(a, b) == MagAddC(a, b, 0)

\* a - b for a >= b
RECURSIVE MagSubB(_, _, _)
MagSubB(a, b, c) ==
    IF a = <<>> THEN <<>>
    ELSE LET y == IF b = <<>> THEN 0 ELSE Head(b)
             t == Head(a) - y - c
         IN  <<t % FIX_KOMMA_SHIFT>>
               \o MagSubB(Tail(a), IF b = <<>> THEN b ELSE Tail(b),
                          IF t < 0 THEN 1 ELSE 0)

MagSub(a, b) == MagStrip(MagSubB(a, b, 0))

\* -1, 0, 1 as a < b, a = b, a > b
RECURSIVE MagCmp(_, _)
MagCmp(a, b) ==
    IF Len(a) # Len(b) THEN (IF Len(a) < Len(b) THEN -1 ELSE 1)
    ELSE IF a = <<>> THEN 0
    ELSE IF a[Len(a)] # b[Len(b)] THEN (IF a[Len(a)] < b[Len(b)] THEN -1 ELSE 1)
    ELSE MagCmp(SubSeq(a, 1, Len(a) - 1), SubSeq(b, 1, Len(b) - 1))

RECURSIVE MagMulDigit(_, _, _)
MagMulDigit(a, d, c) ==
    IF a = <<>> THEN (IF c = 0 THEN <<>> ELSE <<c>>)
    ELSE LET t == Head(a) * d + c
         IN  <<t % FIX_KOMMA_SHIFT>> \o MagMulDigit(Tail(a), d, t \div FIX_KOMMA_SHIFT)

RECURSIVE MagMul(_, _)
MagMul(a, b) ==
    IF b = <<>> \/ a = <<>> THEN <<>>
    ELSE MagStrip(MagAdd(MagMulDigit(a, Head(b), 0), <<0>> \o MagMul(a, Tail(b))))

RECURSIVE MagToNat(_)
MagToNat(m) == IF m = <<>> THEN 0 ELSE Head(m) + FIX_KOMMA_SHIFT * MagToNat(Tail(m))

Wide(neg, mag) == [neg |-> neg /\ mag # <<>>, mag |-> mag]

\* an i32 as a wide integer (x as i64)
W(x) ==
    IF x >= 0 THEN Wide(FALSE, MagFromNat(x))
    ELSE IF x = I32Min THEN Wide(TRUE, MagAdd(MagFromNat(I32Max), <<1>>))
    ELSE Wide(TRUE, MagFromNat(-x))

WNeg(a) == Wide(~a.neg, a.mag)

WAdd(a, b) ==
    IF a.neg = b.neg THEN Wide(a.neg, MagAdd(a.mag, b.mag))
    ELSE IF MagCmp(a.mag, b.mag) >= 0 THEN Wide(a.neg, MagSub(a.mag, b.mag))
    ELSE Wide(b.neg, MagSub(b.mag, a.mag))

WSub(a, b) == WAdd(a, WNeg(b))

WMul(a, b) == Wide(a.neg # b.neg, MagMul(a.mag, b.mag))

\* a / FIX_KOMMA_SHIFT, rounded towards zero as Rust's integer division does
WDivShift(a) == Wide(a.neg, IF a.mag = <<>> THEN <<>> ELSE Tail(a.mag))

\* whether the value is one an i32 holds (what try_into::<i32>() accepts)
WFitsI32(a) ==
    IF a.neg THEN MagCmp(a.mag, MagAdd(MagFromNat(I32Max), <<1>>)) <= 0
    ELSE MagCmp(a.mag, MagFromNat(I32Max)) <= 0

\* the i32 a fitting value is
WToI32(a) ==
    IF ~a.neg THEN MagToNat(a.mag)
    ELSE IF a.mag = MagAdd(MagFromNat(I32Max), <<1>>) THEN I32Min
    ELSE -MagToNat(a.mag)

\* the i32 that two's-complement wrapping leaves of the value (its low 32 bits)
WWrapI32(a) ==
    LET dig(i) == IF i <= Len(a.mag) THEN a.mag[i] ELSE 0
        low == dig(1) + FIX_KOMMA_SHIFT * dig(2) + FIX_KOMMA_SHIFT * FIX_KOMMA_SHIFT * dig(3)
        top == dig(4) % 4
        p30 == FIX_KOMMA_SHIFT * FIX_KOMMA_SHIFT * FIX_KOMMA_SHIFT
        l2 == IF ~a.neg \/ low = 0 THEN low ELSE p30 - low
        t2 == IF ~a.neg THEN top
              ELSE IF low = 0 THEN (4 - top) % 4
              ELSE 3 - top
    IN  IF t2 >= 2 THEN (t2 - 4) * p30 + l2 ELSE t2 * p30 + l2

\* the order of wide integers
WLe(a, b) ==
    IF a.neg # b.neg THEN a.neg
    ELSE IF a.neg THEN MagCmp(a.mag, b.mag) >= 0
    ELSE MagCmp(a.mag, b.mag) <= 0

WGt(a, b) == ~WLe(a, b)

\* 2^63 and 2^64 as magnitudes: 2^60 is 1024^6
P63 == <<0, 0, 0, 0, 0, 0, 8>>
P64 == <<0, 0, 0, 0, 0, 0, 16>>

I64Max == Wide(FALSE, MagSub(P63, <<1>>))
I64Min == Wide(TRUE, P63)
USIZE_MAX == Wide(FALSE, MagSub(P64, <<1>>))

\* whether the value is one an i64 holds
WFitsI64(a) == WLe(I64Min, a) /\ WLe(a, I64Max)

\* the i64 that two's-complement wrapping leaves of the value (its low 64 bits)
WWrapI64(a) ==
    LET low == MagStrip([i \in 1..(IF Len(a.mag) < 7 THEN Len(a.mag) ELSE 7) |->
                            IF i = 7 THEN a.mag[i] % 16 ELSE a.mag[i]])
        u == IF a.neg /\ low # <<>> THEN MagSub(P64, low) ELSE low
    IN  IF MagCmp(u, P63) >= 0 THEN Wide(TRUE, MagSub(P64, u)) ELSE Wide(FALSE, u)

\* x >> FIX_KOMMA_SHIFT_BITS on an i32: an arithmetic shift rounds down
Shr(x) == x \div FIX_KOMMA_SHIFT

-----------------------------------------------------------------------------
(* What a transfer call or a setter call comes to: the call returned        *)
(* ("ok", with the element as the call leaves it and the value returned),   *)
(* or it panicked ("panic", with the reason).                               *)

Ok(e, out) == [st |-> "ok", why |-> "", e |-> e, out |-> out]
Panic(e, why) == [st |-> "panic", why |-> why, e |-> e, out |-> 0]

\* f64 `as usize`, `as i64`, `as i32`: truncation that saturates at the ends
\* of the target type; NaN gives 0.  A usize (64 bits) and an i64 are wide
\* integers, an i32 is an integer.
AsUsize(a) ==
    IF IsNaN(a) THEN W(0)
    ELSE IF ~IsFin(a) THEN (IF a = PInf THEN USIZE_MAX ELSE W(0))
    ELSE IF a.n < 0 THEN W(0) ELSE W(FTrunc(a))

AsI64(a) ==
    IF IsNaN(a) THEN W(0)
    ELSE IF ~IsFin(a) THEN (IF a = PInf THEN I64Max ELSE I64Min)
    ELSE W(FTrunc(a))

AsInt(a) ==
    IF IsNaN(a) THEN 0
    ELSE IF ~IsFin(a) THEN (IF a = PInf THEN I32Max ELSE I32Min)
    ELSE FTrunc(a)

\* an i32 operation on the exact result w: the value when it fits; otherwise
\* a panic where overflow checks are compiled in, the wrapped value where not
Fits(w, checks) == WFitsI32(w) \/ ~checks
I32Of(w) == IF WFitsI32(w) THEN WToI32(w) ELSE WWrapI32(w)

\* the same for an i64 operation
Fits64(w, checks) == WFitsI64(w) \/ ~checks
I64Of(w) == IF WFitsI64(w) THEN w ELSE WWrapI64(w)

-----------------------------------------------------------------------------
(* PT0, the zero order lag element (src/src/plant/pt0.rs) *)

MAX_BUFFER_SIZE == 1000

\* [N; MAX_BUFFER_SIZE] as the function from the indices of its non-zero
\* slots to their values: every other slot holds zero
ZeroOf(ty) == IF ty = "f64" THEN F(0) ELSE 0

BufGet(ty, buf, i) == IF i \in DOMAIN buf THEN buf[i] ELSE ZeroOf(ty)

PT0_default(ty) ==
    [kind |-> "PT0", ty |-> ty, t0_time |-> F(0), sample_time |-> F(1),
     kp |-> IF ty = "f64" THEN F(1) ELSE FIX_KOMMA_SHIFT,
     buffered_output |-> <<>>]

PT0_set_sample_time_or_default(e, sample_time) ==
    IF FGt(sample_time, F(0)) THEN [e EXCEPT !.sample_time = sample_time]
    ELSE [e EXCEPT !.sample_time = F(1)]

\* Ok(Self) or Err(&str)
PT0_set_t0_time(e, t0_time) ==
    IF FGe(t0_time, F(0))
    THEN [ok |-> TRUE, e |-> [e EXCEPT !.t0_time = FAdd(t0_time, F(1))]]
    ELSE [ok |-> FALSE, e |-> e]

PT0_set_t0_time_or_default(e, t0_time) ==
    IF FGe(t0_time, F(0)) THEN [e EXCEPT !.t0_time = FAdd(t0_time, F(1))]
    ELSE [e EXCEPT !.t0_time = F(1)]

\* kp is an integer here; the i32 variant stores it scaled, the product an
\* i32 multiplication
PT0_set_kp(e, kp, checks) ==
    IF e.ty = "f64" THEN Ok([e EXCEPT !.kp = F(kp)], 0)
    ELSE IF ~Fits(WMul(W(kp), W(FIX_KOMMA_SHIFT)), checks) THEN Panic(e, "overflow")
    ELSE Ok([e EXCEPT !.kp = I32Of(WMul(W(kp), W(FIX_KOMMA_SHIFT)))], 0)

\* (t0_time / sample_time) as usize, a wide integer
PT0_length(e) == AsUsize(FDiv(e.t0_time, e.sample_time))

\* the buffer after the iterations i = 0 .. n - 1 of the shift loop
PT0_shift_loop(buf, n) ==
    LET moved == {i - 1 : i \in {j \in DOMAIN buf : 1 <= j /\ j <= n}}
        kept  == {j \in DOMAIN buf : j >= n}
    IN  [i \in moved \cup kept |-> IF i < n THEN buf[i + 1] ELSE buf[i]]

\* the buffer after the shift loop over 0..length and the store at [length]
PT0_shift(ty, buf, length, v) ==
    LET moved == {i - 1 : i \in {j \in DOMAIN buf : 1 <= j /\ j <= length}}
        kept  == {j \in DOMAIN buf : j > length}
        new   == IF v = ZeroOf(ty) THEN {} ELSE {length}
    IN  [i \in moved \cup kept \cup new |->
            IF i < length THEN buf[i + 1]
            ELSE IF i = length THEN v
            ELSE buf[i]]

\* transfer_td of PT0<f64> and PT0<i32>; input is an integer.  The call
\* works on the element in place, so a call that panics leaves the buffer
\* as far as the shift loop came: with length = MAX_BUFFER_SIZE the loop
\* fails at i = length - 1, reading slot i + 1; the i32 product is computed
\* once the loop is through.
PT0_transfer_td(e, input, checks) ==
    LET length == WToI32(PT0_length(e))
        prod   == IF e.ty = "f64" THEN FMul(F(input), e.kp)
                  ELSE I32Of(WMul(W(input), W(e.kp)))
        buf    == PT0_shift(e.ty, e.buffered_output, length, prod)
        first  == BufGet(e.ty, buf, 0)
    IN  IF WGt(PT0_length(e), W(MAX_BUFFER_SIZE)) THEN Panic(e, "capacity")
        ELSE IF length + 1 > MAX_BUFFER_SIZE
             THEN Panic([e EXCEPT !.buffered_output =
                             PT0_shift_loop(e.buffered_output, length - 1)], "index")
        ELSE IF e.ty = "i32" /\ ~Fits(WMul(W(input), W(e.kp)), checks)
             THEN Panic([e EXCEPT !.buffered_output =
                             PT0_shift_loop(e.buffered_output, length)], "overflow")
        ELSE Ok([e EXCEPT !.buffered_output = buf],
                IF e.ty = "f64" THEN first ELSE Shr(first))

-----------------------------------------------------------------------------
(* PT1, the first order lag element (src/src/plant/pt1.rs) *)

PT1_default(ty) ==
    [kind |-> "PT1", ty |-> ty, t1_time |-> F(1), sample_time |-> F(1),
     kp |-> IF ty = "f64" THEN F(1) ELSE FIX_KOMMA_SHIFT,
     previous_output |-> ZeroOf(ty)]

\* a setter that asserts: the element it returns, or the panic of the assert
PT1_set_sample_time(e, sample_time) ==
    IF FGt(sample_time, F(0)) THEN Ok([e EXCEPT !.sample_time = sample_time], 0)
    ELSE Panic(e, "assert")

PT1_set_t1_time(e, t1_time) ==
    IF FGe(t1_time, e.sample_time) \/ FEq(t1_time, F(0))
    THEN Ok([e EXCEPT !.t1_time = t1_time], 0)
    ELSE Panic(e, "assert")

\* kp is an integer here; the i32 variant stores it scaled
PT1_set_kp(e, kp, checks) ==
    IF kp <= 0 THEN Panic(e, "assert")
    ELSE IF e.ty = "f64" THEN Ok([e EXCEPT !.kp = F(kp)], 0)
    ELSE IF ~Fits(WMul(W(kp), W(FIX_KOMMA_SHIFT)), checks) THEN Panic(e, "overflow")
    ELSE Ok([e EXCEPT !.kp = I32Of(WMul(W(kp), W(FIX_KOMMA_SHIFT)))], 0)

\* PT1<i32>::alpha: (sample_time * 1024 / t1_time) as i32
PT1_alpha_i32(e) ==
    AsInt(FDiv(FMul(e.sample_time, F(FIX_KOMMA_SHIFT)), e.t1_time))

\* PT1<f64>::alpha
PT1_alpha_f64(e) == FDiv(e.sample_time, e.t1_time)

\* transfer_td of PT1<i32>.  In Rust + binds tighter than >>, so the sum
\* previous_output + alpha * (...) is what is shifted.
PT1_transfer_td_i32(e, input, checks) ==
    LET prev == e.previous_output
        w1 == WMul(W(input), W(e.kp))
        w2 == WSub(W(I32Of(w1)), W(prev))
        w3 == WMul(W(PT1_alpha_i32(e)), W(I32Of(w2)))
        w4 == WAdd(W(prev), W(I32Of(w3)))
        out == Shr(I32Of(w4))
    IN  IF \A w \in {w1, w2, w3, w4} : Fits(w, checks)
        THEN Ok([e EXCEPT !.previous_output = out], Shr(out))
        ELSE Panic(e, "overflow")

\* transfer_td of PT1<f64>
PT1_transfer_td_f64(e, input) ==
    LET out == FAdd(e.previous_output,
                    FMul(PT1_alpha_f64(e),
                         FSub(FMul(F(input), e.kp), e.previous_output)))
    IN  Ok([e EXCEPT !.previous_output = out], out)

\* input is an integer
PT1_transfer_td(e, input, checks) ==
    IF e.ty = "f64" THEN PT1_transfer_td_f64(e, input)
    ELSE PT1_transfer_td_i32(e, input, checks)

-----------------------------------------------------------------------------
(* PT2, the second order lag element (src/src/plant/pt2.rs) *)

\* f64::sqrt of NaN or of a negative value is NaN, of +inf is +inf.  The root
\* of a finite value is taken exactly: it is defined on the squares of
\* rationals, the only values the calls of the model take a root of.
Root(x) == CHOOSE r \in 0..x : r * r = x

FSqrt(a) ==
    IF IsNaN(a) THEN NaN
    ELSE IF ~IsFin(a) THEN (IF a = PInf THEN PInf ELSE NaN)
    ELSE IF a.n < 0 THEN NaN
    ELSE Fin(Root(a.n), Root(a.d))

PT2_default(ty) ==
    [kind |-> "PT2", ty |-> ty, omega |-> F(1),
     damping |-> IF ty = "f64" THEN F(1) ELSE F(0),
     sample_time |-> F(1),
     kp |-> IF ty = "f64" THEN F(1) ELSE FIX_KOMMA_SHIFT,
     previous_output |-> ZeroOf(ty), previous_diff_output |-> ZeroOf(ty)]

PT2_set_sample_time_or_default(e, sample_time) ==
    IF FGt(sample_time, F(0)) THEN [e EXCEPT !.sample_time = sample_time]
    ELSE [e EXCEPT !.sample_time = F(1)]

PT2_set_omega_or_default(e, omega) ==
    IF FGe(FDiv(F(1), omega), e.sample_time) THEN [e EXCEPT !.omega = omega]
    ELSE [e EXCEPT !.omega = F(1)]

PT2_set_damping_or_default(e, damping) ==
    IF FGe(damping, F(0)) THEN [e EXCEPT !.damping = damping]
    ELSE [e EXCEPT !.damping = F(1)]

PT2_set_t1_time_or_default(e, t1_time) ==
    IF FGe(t1_time, e.sample_time) THEN [e EXCEPT !.omega = FDiv(F(1), t1_time)]
    ELSE [e EXCEPT !.omega = F(1)]

\* the value whose square root set_t2_time_or_default takes
PT2_t2_radicand(e, t2_time) == FMul(FDiv(F(1), t2_time), e.omega)

PT2_set_t2_time_or_default(e, t2_time) ==
    IF FGe(t2_time, e.sample_time)
    THEN [e EXCEPT !.omega = FSqrt(PT2_t2_radicand(e, t2_time)),
                   !.damping = FDiv(FAdd(FDiv(F(1), e.omega), t2_time),
                                    FMul(F(2), e.omega))]
    ELSE [e EXCEPT !.damping = F(1)]

\* kp is an integer here; the i32 variant stores it scaled
PT2_set_kp(e, kp, checks) ==
    IF e.ty = "f64" THEN Ok([e EXCEPT !.kp = F(kp)], 0)
    ELSE IF ~Fits(WMul(W(kp), W(FIX_KOMMA_SHIFT)), checks) THEN Panic(e, "overflow")
    ELSE Ok([e EXCEPT !.kp = I32Of(WMul(W(kp), W(FIX_KOMMA_SHIFT)))], 0)

\* transfer_td of PT2<i32>: the update is computed in i64, operation by
\* operation as the expressions associate, and each new state variable is
\* converted back with try_into().unwrap().  An i64 operation that overflows
\* panics where overflow checks are compiled in and wraps where not.
PT2_transfer_td_i32(e, input, checks) ==
    LET omega == AsI64(FMul(e.omega, F(FIX_KOMMA_SHIFT)))
        damping == AsI64(FMul(e.damping, F(FIX_KOMMA_SHIFT)))
        h == AsI64(e.sample_time)
        pdo == W(e.previous_diff_output)
        po == W(e.previous_output)
        m1 == WMul(omega, omega)
        omega_squared == WDivShift(I64Of(m1))
        a1 == WMul(W(-2), damping)
        a2 == WMul(I64Of(a1), omega)
        a3 == WMul(WDivShift(I64Of(a2)), pdo)
        friction == WDivShift(I64Of(a3))
        s1 == WMul(omega_squared, po)
        d1 == WMul(W(e.kp), W(input))
        d2 == WMul(I64Of(d1), omega_squared)
        drive == WDivShift(I64Of(d2))
        e1 == WSub(friction, I64Of(s1))
        e2 == WAdd(I64Of(e1), drive)
        f1 == WMul(h, I64Of(e2))
        g1 == WAdd(pdo, I64Of(f1))
        diff_output == I64Of(g1)
        o1 == WMul(h, omega)
        o2 == WMul(I64Of(o1), pdo)
        o3 == WAdd(po, I64Of(o2))
        output == I64Of(o3)
    IN  IF \E w \in {m1, a1, a2, a3, s1, d1, d2, e1, e2, f1, g1, o1, o2, o3} :
               ~Fits64(w, checks)
        THEN Panic(e, "overflow")
        ELSE IF ~WFitsI32(diff_output) THEN Panic(e, "try_into")
        ELSE IF ~WFitsI32(output)
             THEN Panic([e EXCEPT !.previous_diff_output = WToI32(diff_output)], "try_into")
        ELSE Ok([e EXCEPT !.previous_diff_output = WToI32(diff_output),
                          !.previous_output = WToI32(output)],
                Shr(WToI32(output)))

\* PT2_transfer_td_f64 with the output integrated from the new derivative
\* (the semi-implicit Euler step) instead of the old one
PT2_transfer_td_f64_new_derivative(e, input) ==
    LET omega_squared == FMul(e.omega, e.omega)
        diff_output ==
            FAdd(e.previous_diff_output,
                 FMul(e.sample_time,
                      FAdd(FSub(FMul(FMul(FMul(F(-2), e.damping), e.omega),
                                     e.previous_diff_output),
                                FMul(omega_squared, e.previous_output)),
                           FMul(FMul(e.kp, omega_squared), F(input)))))
        output == FAdd(e.previous_output,
                       FMul(FMul(e.sample_time, e.omega), diff_output))
    IN  Ok([e EXCEPT !.previous_diff_output = diff_output,
                     !.previous_output = output],
           output)

\* transfer_td of PT2<f64>
PT2_transfer_td_f64(e, input) ==
    LET omega_squared == FMul(e.omega, e.omega)
        diff_output ==
            FAdd(e.previous_diff_output,
                 FMul(e.sample_time,
                      FAdd(FSub(FMul(FMul(FMul(F(-2), e.damping), e.omega),
                                     e.previous_diff_output),
                                FMul(omega_squared, e.previous_output)),
                           FMul(FMul(e.kp, omega_squared), F(input)))))
        output == FAdd(e.previous_output,
                       FMul(FMul(e.sample_time, e.omega), e.previous_diff_output))
    IN  Ok([e EXCEPT !.previous_diff_output = diff_output,
                     !.previous_output = output],
           output)

\* input is an integer
PT2_transfer_td(e, input, checks) ==
    IF e.ty = "f64" THEN PT2_transfer_td_f64(e, input)
    ELSE PT2_transfer_td_i32(e, input, checks)

-----------------------------------------------------------------------------
(* Hysteresis and HysteresisBuilder (src/src/hysteresis.rs).  A value of    *)
(* the numeric type N is a rational; for an integer N it is a whole number  *)
(* and N's division rounds towards zero.                                    *)

NDiv(ty, a, b) == IF ty = "f64" THEN FDiv(a, b) ELSE F(FTrunc(FDiv(a, b)))

LinearFn(m, n) == [m |-> m, n |-> n]

\* m * u + n
LinearFn_eval(fn, u) == FAdd(FMul(fn.m, u), fn.n)

\* Option<N>
None == [some |-> FALSE, v |-> F(0)]
Some(x) == [some |-> TRUE, v |-> x]

\* transfer with the upper threshold tested before the lower one
Hysteresis_transfer_upper_first(h, u) ==
    IF FLt(h.upper, u)
    THEN Ok([h EXCEPT !.direction = "FromUpper"], LinearFn_eval(h.upper_fn, u))
    ELSE IF FGt(h.lower, u)
    THEN Ok([h EXCEPT !.direction = "FromLower"], LinearFn_eval(h.lower_fn, u))
    ELSE IF h.direction = "FromLower"
    THEN Ok(h, LinearFn_eval(h.lower_fn, u))
    ELSE Ok(h, LinearFn_eval(h.upper_fn, u))

\* transfer that falls back to the lower branch after an input inside the band
Hysteresis_transfer_forgetful(h, u) ==
    IF FGt(h.lower, u)
    THEN Ok([h EXCEPT !.direction = "FromLower"], LinearFn_eval(h.lower_fn, u))
    ELSE IF FLt(h.upper, u)
    THEN Ok([h EXCEPT !.direction = "FromUpper"], LinearFn_eval(h.upper_fn, u))
    ELSE IF h.direction = "FromLower"
    THEN Ok(h, LinearFn_eval(h.lower_fn, u))
    ELSE Ok([h EXCEPT !.direction = "FromLower"], LinearFn_eval(h.upper_fn, u))

\* Hysteresis::transfer: the hysteresis after the call and Ok(value)
Hysteresis_transfer(h, u) ==
    IF FGt(h.lower, u)
    THEN Ok([h EXCEPT !.direction = "FromLower"], LinearFn_eval(h.lower_fn, u))
    ELSE IF FLt(h.upper, u)
    THEN Ok([h EXCEPT !.direction = "FromUpper"], LinearFn_eval(h.upper_fn, u))
    ELSE IF h.direction = "FromLower"
    THEN Ok(h, LinearFn_eval(h.lower_fn, u))
    ELSE Ok(h, LinearFn_eval(h.upper_fn, u))

HysteresisBuilder_new(ty, lower_fn, upper_fn) ==
    [ty |-> ty, upper_fn |-> upper_fn, lower_fn |-> lower_fn,
     upper |-> None, lower |-> None,
     spread |-> F(0), midpoint |-> F(0), direction |-> "FromLower"]

\* build that puts a derived threshold half a spread from the explicit one
HysteresisBuilder_build_half_spread(b) ==
    LET two == FAdd(F(1), F(1))
        half == NDiv(b.ty, b.spread, two)
        lower == IF b.lower.some THEN b.lower.v
                 ELSE IF ~b.upper.some THEN FSub(b.midpoint, half)
                      ELSE FSub(b.upper.v, half)
        upper == IF b.upper.some THEN b.upper.v
                 ELSE IF ~b.lower.some THEN FAdd(b.midpoint, half)
                      ELSE FAdd(b.lower.v, half)
    IN  [ty |-> b.ty, lower_fn |-> b.lower_fn, upper_fn |-> b.upper_fn,
         upper |-> upper, lower |-> lower, direction |-> b.direction]

HysteresisBuilder_build(b) ==
    LET two == FAdd(F(1), F(1))
        lower == IF b.lower.some THEN b.lower.v
                 ELSE IF ~b.upper.some
                      THEN FSub(b.midpoint, NDiv(b.ty, b.spread, two))
                      ELSE FSub(b.upper.v, b.spread)
        upper == IF b.upper.some THEN b.upper.v
                 ELSE IF ~b.lower.some
                      THEN FAdd(b.midpoint, NDiv(b.ty, b.spread, two))
                      ELSE FAdd(b.lower.v, b.spread)
    IN  [ty |-> b.ty, lower_fn |-> b.lower_fn, upper_fn |-> b.upper_fn,
         upper |-> upper, lower |-> lower, direction |-> b.direction]

HysteresisBuilder_spread_x(b, s) == [b EXCEPT !.spread = s]

\* spread_y that divides by the slope difference taken the other way round
HysteresisBuilder_spread_y_reversed(b, s) ==
    IF ~FEq(b.lower_fn.m, b.upper_fn.m)
    THEN [b EXCEPT !.spread = NDiv(b.ty, s, FSub(b.lower_fn.m, b.upper_fn.m))]
    ELSE b

HysteresisBuilder_spread_y(b, s) ==
    IF ~FEq(b.lower_fn.m, b.upper_fn.m)
    THEN [b EXCEPT !.spread = NDiv(b.ty, s, FSub(b.upper_fn.m, b.lower_fn.m))]
    ELSE b

HysteresisBuilder_cross(b) ==
    IF ~FEq(b.lower_fn.m, b.upper_fn.m)
    THEN [b EXCEPT !.midpoint = NDiv(b.ty, FSub(b.lower_fn.n, b.upper_fn.n),
                                     FSub(b.upper_fn.m, b.lower_fn.m))]
    ELSE b

HysteresisBuilder_lower_x(b, s) == [b EXCEPT !.lower = Some(s)]

HysteresisBuilder_upper_x(b, s) == [b EXCEPT !.upper = Some(s)]

\* lower_y that takes the offsets the other way round
HysteresisBuilder_lower_y_swapped(b, delta_y) ==
    IF ~FEq(b.lower_fn.m, b.upper_fn.m)
    THEN [b EXCEPT !.lower =
             Some(NDiv(b.ty, FAdd(FSub(b.upper_fn.n, b.lower_fn.n), delta_y),
                       FSub(b.upper_fn.m, b.lower_fn.m)))]
    ELSE b

HysteresisBuilder_lower_y(b, delta_y) ==
    IF ~FEq(b.lower_fn.m, b.upper_fn.m)
    THEN [b EXCEPT !.lower =
             Some(NDiv(b.ty, FAdd(FSub(b.lower_fn.n, b.upper_fn.n), delta_y),
                       FSub(b.upper_fn.m, b.lower_fn.m)))]
    ELSE b

HysteresisBuilder_upper_y(b, delta_y) ==
    IF ~FEq(b.lower_fn.m, b.upper_fn.m)
    THEN [b EXCEPT !.upper =
             Some(NDiv(b.ty, FAdd(FSub(b.lower_fn.n, b.upper_fn.n), delta_y),
                       FSub(b.upper_fn.m, b.lower_fn.m)))]
    ELSE b

HysteresisBuilder_upper_direction(b) == [b EXCEPT !.direction = "FromUpper"]

-----------------------------------------------------------------------------
(* BoxedTransferTimeDomain<S>, the handle that owns one element of any kind *)
(* (src/src/plant/mod.rs).  The heap is the sequence of the boxed elements; *)
(* a handle is the index of the element it owns.                            *)

\* == of the numeric type
NEq(ty, a, b) == IF ty = "f64" THEN FEq(a, b) ELSE a = b

\* #[derive(PartialEq)] of PT0, PT1, PT2: field by field with ==
PT0_eq(x, y) ==
    /\ FEq(x.t0_time, y.t0_time)
    /\ FEq(x.sample_time, y.sample_time)
    /\ NEq(x.ty, x.kp, y.kp)
    /\ \A i \in DOMAIN x.buffered_output \cup DOMAIN y.buffered_output :
          NEq(x.ty, BufGet(x.ty, x.buffered_output, i),
                    BufGet(y.ty, y.buffered_output, i))

PT1_eq(x, y) ==
    /\ FEq(x.t1_time, y.t1_time)
    /\ FEq(x.sample_time, y.sample_time)
    /\ NEq(x.ty, x.kp, y.kp)
    /\ NEq(x.ty, x.previous_output, y.previous_output)

PT2_eq(x, y) ==
    /\ FEq(x.omega, y.omega)
    /\ FEq(x.damping, y.damping)
    /\ FEq(x.sample_time, y.sample_time)
    /\ NEq(x.ty, x.kp, y.kp)
    /\ NEq(x.ty, x.previous_output, y.previous_output)
    /\ NEq(x.ty, x.previous_diff_output, y.previous_diff_output)

\* dyn_eq: downcast other to the type of self, then ==
dyn_eq(x, y) ==
    IF x.kind = y.kind /\ x.ty = y.ty
    THEN IF x.kind = "PT0" THEN PT0_eq(x, y)
         ELSE IF x.kind = "PT1" THEN PT1_eq(x, y)
         ELSE PT2_eq(x, y)
    ELSE FALSE

\* Box::new: the heap with the element in a new cell, and its handle
Box_new(heap, e) == [heap |-> Append(heap, e), handle |-> Len(heap) + 1]

\* a clone that hands out the handle it was given
Box_clone_shared(heap, h) == [heap |-> heap, handle |-> h]

\* Clone: dyn_clone::clone_box copies the element into a new box
Box_clone(heap, h) == Box_new(heap, heap[h])

\* PartialEq::eq: self.dyn_eq(other.clone().as_dyn_element())
Box_eq(heap, self, other) ==
    LET c == Box_clone(heap, other)
    IN  dyn_eq(c.heap[self], c.heap[c.handle])

\* Default for BoxedTransferTimeDomain<f64>
Box_default(heap) == Box_new(heap, PT1_default("f64"))

\* transfer_td through the handle: the call of the element's own transfer_td
Elem_transfer_td(e, u, checks) ==
    IF e.kind = "PT0" THEN PT0_transfer_td(e, u, checks)
    ELSE IF e.kind = "PT1" THEN PT1_transfer_td(e, u, checks)
    ELSE PT2_transfer_td(e, u, checks)

-----------------------------------------------------------------------------
(* TimeRange, the iterator over sample times (src/src/signal/time_range.rs) *)

DEFAULT_SAMPLES == 100

TimeRange_default ==
    [unit_of_measurement |-> "ms", start |-> F(0), end |-> F(100),
     sampling_interval |-> F(1), current |-> F(0)]

TimeRange_set_unit_of_measurement(r, unit_of_measurement) ==
    [r EXCEPT !.unit_of_measurement = unit_of_measurement]

TimeRange_set_start(r, start) ==
    IF FGt(start, r.end) THEN Panic(r, "start")
    ELSE Ok([r EXCEPT !.start = start, !.current = start], 0)

TimeRange_set_end(r, end) ==
    IF FGt(r.start, end) THEN Panic(r, "end")
    ELSE Ok([r EXCEPT !.end = end], 0)

\* an Option<usize>
NoneUsize == [some |-> FALSE, v |-> 0]
SomeUsize(n) == [some |-> TRUE, v |-> n]

TimeRange_set_number_of_samples(r, samples) ==
    LET n == IF samples.some THEN samples.v ELSE DEFAULT_SAMPLES
    IN  [r EXCEPT !.sampling_interval = FDiv(FSub(r.end, r.start), F(n))]

TimeRange_set_sampling_interval(r, sampling_interval) ==
    IF FLt(FSub(r.end, r.start), sampling_interval) THEN Panic(r, "interval")
    ELSE Ok([r EXCEPT !.sampling_interval = sampling_interval], 0)

\* Iterator::next: the range after the call and Some(value) or None
TimeRange_next(r) ==
    IF FGt(r.current, r.end) THEN [e |-> r, item |-> None]
    ELSE LET c == FAdd(r.current, r.sampling_interval)
         IN  [e |-> [r EXCEPT !.current = c], item |-> Some(c)]

\* ExactSizeIterator::len, a usize
TimeRange_len(r) == AsUsize(FDiv(FSub(r.end, r.start), r.sampling_interval))

-----------------------------------------------------------------------------
(* The state *)

VARIABLES
    overflow_checks, \* whether the build panics on i32 overflow (debug) or wraps
    pt0,             \* a PT0 element
    pt0_st,          \* "ok", or "panic" once a transfer_td call on it panicked
    pt0_why,         \* the reason of that panic
    pt0_ins,         \* the inputs of the transfer_td calls made on it, in order
    pt0_outs,        \* the values those calls returned
    pt0_req,         \* the delay time and gain asked of the setters
    pt0_sets,        \* the number of setter calls made on it
    pt1,             \* a PT1 element
    pt1_st,          \* "ok", or "panic" once a call on it panicked
    pt1_why,         \* the reason of that panic
    pt1_ins,         \* the inputs of the transfer_td calls made on it, in order
    pt1_outs,        \* the values those calls returned
    pt1_sets,        \* the number of setter calls made on it
    pt1_late,        \* whether a setter was called after the first transfer_td
    pt2,             \* a PT2 element
    pt2_pre,         \* that element as it was before the last transfer_td call
    pt2_st,          \* "ok", or "panic" once a call on it panicked
    pt2_why,         \* the reason of that panic
    pt2_ins,         \* the inputs of the transfer_td calls made on it, in order
    pt2_outs,        \* the values those calls returned
    pt2_sets,        \* the number of setter calls made on it
    pt2_t12,         \* set_t1_time_or_default(t1), set_t2_time_or_default(t2) in a row
    pt2_late,        \* whether a setter was called after the first transfer_td
    hb,              \* a HysteresisBuilder
    hb_calls,        \* the number of builder calls made on it
    hy,              \* the Hysteresis it built
    hy_built,        \* whether build() has been called
    hy_cur,          \* whether no builder call was made since that build()
    hy_pre,          \* the Hysteresis as it was before the last transfer call
    hy_in,           \* the input of the last transfer call
    hy_res,          \* what that call returned
    hy_band,         \* the transfer calls since the input last left the band
    hb_last,         \* the last builder call: its name, argument and receiver
    bx_elem,         \* the element a caller is configuring before boxing it
    bx_sets,         \* the number of setter calls made on it
    bx_heap,         \* the boxed elements
    bx_h,            \* the handles a and b (0: not made yet)
    bx_alone,        \* per handle, its element had only this handle been stepped
    bx_step,         \* the last transfer_td call through a handle
    bx_steps,        \* per handle, the number of transfer_td calls through it
    bx_cloned,       \* whether b was made by a.clone()
    bx_cmp,          \* the results of the last comparison of the handles
    tr,              \* a TimeRange
    tr_st,           \* "ok", or "panic" once a setter panicked
    tr_sets,         \* the number of setter calls made on it
    tr_asked,        \* the samples last asked for, of a range not iterated before
    tr_items,        \* the number of values next() has returned
    tr_last,         \* what the last next() call returned
    tr_done          \* whether the last next() call returned None

pt0vars == <<pt0, pt0_st, pt0_why, pt0_ins, pt0_outs, pt0_req, pt0_sets>>
pt1vars == <<pt1, pt1_st, pt1_why, pt1_ins, pt1_outs, pt1_sets, pt1_late>>

pt2vars ==
    <<pt2, pt2_pre, pt2_st, pt2_why, pt2_ins, pt2_outs, pt2_sets, pt2_t12, pt2_late>>

hyvars == <<hb, hb_calls, hy, hy_built, hy_cur, hy_pre, hy_in, hy_res, hy_band, hb_last>>

bxvars == <<bx_elem, bx_sets, bx_heap, bx_h, bx_alone, bx_step, bx_steps,
            bx_cloned, bx_cmp>>

trvars == <<tr, tr_st, tr_sets, tr_asked, tr_items, tr_last, tr_done>>

vars == <<overflow_checks, pt0vars, pt1vars, pt2vars, hyvars, bxvars, trvars>>

\* what the calls on one element leave alone
pt0_others ==
    <<overflow_checks, pt1vars, pt2vars, hyvars, bxvars, trvars>>
pt1_others ==
    <<overflow_checks, pt0vars, pt2vars, hyvars, bxvars, trvars>>
pt2_others ==
    <<overflow_checks, pt0vars, pt1vars, hyvars, bxvars, trvars>>
hy_others ==
    <<overflow_checks, pt0vars, pt1vars, pt2vars, bxvars, trvars>>
tr_others == <<overflow_checks, pt0vars, pt1vars, pt2vars, hyvars, bxvars>>
bx_others ==
    <<overflow_checks, pt0vars, pt1vars, pt2vars, hyvars, trvars>>

-----------------------------------------------------------------------------
(* PT0: a run of setter and transfer_td calls on one element *)

\* the arguments the calls are made with
PT0_T0Args == {F(-1), F(0), F(1), F(2), F(999), F(2000)}
PT0_TsArgs == {F(0), F(1), Fin(1, 2), F(2)}
PT0_KpArgs == {2}
PT0_Inputs == {100, 300}

NumTypes == {"f64", "i32"}

InitPT0(tys) ==
    /\ pt0 \in {PT0_default(ty) : ty \in tys}
    /\ pt0_st = "ok"
    /\ pt0_why = ""
    /\ pt0_ins = <<>>
    /\ pt0_outs = <<>>
    /\ pt0_req = [asked |-> TRUE, T |-> F(0), gain |-> 1, late |-> FALSE,
                  gain_late |-> FALSE]
    /\ pt0_sets = 0

PT0CanSet == pt0_st = "ok" /\ pt0_sets < MaxDelaySetterCalls

\* a setter call made once stepping has begun changes the delay of a
\* buffer that is no longer empty
PT0Late == pt0_req.late \/ pt0_ins # <<>>

PT0SetSampleTime ==
    /\ PT0CanSet
    /\ \E ts \in PT0_TsArgs : pt0' = PT0_set_sample_time_or_default(pt0, ts)
    /\ pt0_req' = [pt0_req EXCEPT !.late = PT0Late]
    /\ pt0_sets' = pt0_sets + 1
    /\ UNCHANGED <<pt0_st, pt0_why, pt0_ins, pt0_outs, pt0_others>>

PT0SetT0Time ==
    /\ PT0CanSet
    /\ \E t0 \in PT0_T0Args :
         LET r == PT0_set_t0_time(pt0, t0)
         IN  /\ pt0' = r.e
             /\ pt0_req' = IF r.ok THEN [pt0_req EXCEPT !.asked = TRUE, !.T = t0, !.late = PT0Late]
                           ELSE pt0_req
    /\ pt0_sets' = pt0_sets + 1
    /\ UNCHANGED <<pt0_st, pt0_why, pt0_ins, pt0_outs, pt0_others>>

PT0SetT0TimeOrDefault ==
    /\ PT0CanSet
    /\ \E t0 \in PT0_T0Args :
         /\ pt0' = PT0_set_t0_time_or_default(pt0, t0)
         /\ pt0_req' = [pt0_req EXCEPT !.asked = FGe(t0, F(0)), !.T = t0, !.late = PT0Late]
    /\ pt0_sets' = pt0_sets + 1
    /\ UNCHANGED <<pt0_st, pt0_why, pt0_ins, pt0_outs, pt0_others>>

PT0SetKp ==
    /\ PT0CanSet
    /\ \E kp \in PT0_KpArgs :
         LET r == PT0_set_kp(pt0, kp, overflow_checks)
         IN  /\ pt0' = r.e
             /\ pt0_st' = r.st
             /\ pt0_why' = r.why
             /\ pt0_req' = IF r.st = "ok"
                           THEN [pt0_req EXCEPT !.gain = kp, !.late = PT0Late,
                                                !.gain_late = PT0Late]
                           ELSE pt0_req
    /\ pt0_sets' = pt0_sets + 1
    /\ UNCHANGED <<pt0_ins, pt0_outs, pt0_others>>

PT0Transfer ==
    /\ pt0_st = "ok"
    /\ Len(pt0_ins) < MaxSteps
    /\ \E u \in PT0_Inputs :
         LET r == PT0_transfer_td(pt0, u, overflow_checks)
         IN  /\ pt0' = r.e
             /\ pt0_st' = r.st
             /\ pt0_why' = r.why
             /\ pt0_ins' = Append(pt0_ins, u)
             /\ pt0_outs' = IF r.st = "ok" THEN Append(pt0_outs, r.out) ELSE pt0_outs
    /\ UNCHANGED <<pt0_req, pt0_sets, pt0_others>>

NextPT0 ==
    \/ PT0SetSampleTime
    \/ PT0SetT0Time
    \/ PT0SetT0TimeOrDefault
    \/ PT0SetKp
    \/ PT0Transfer

(* Claims about PT0 *)

\* the value a transfer_td call returned, as the integer it is (if it is one)
PT0_OutIs(k, x) ==
    IF pt0.ty = "f64" THEN pt0_outs[k] = F(x) ELSE pt0_outs[k] = x

\* the delay asked for, in samples: floor(T / Ts)
PT0_asked_d == WToI32(AsUsize(FDiv(pt0_req.T, pt0.sample_time)))

\* the element was configured (delay time accepted by a setter, or left at
\* the default) before the first transfer_td call and not touched since
PT0_ConfiguredFirst == pt0_req.asked /\ ~pt0_req.late

\* C1: a PT0 configured with delay time T and sample time Ts returns 0 on
\* each of the first d = floor(T/Ts) calls, and on every call k > d the gain
\* times the input of call k - d.
C1_DelayIsFloorT0OverTs ==
    PT0_ConfiguredFirst =>
        \A k \in 1..Len(pt0_outs) :
            IF k <= PT0_asked_d THEN PT0_OutIs(k, 0)
            ELSE PT0_OutIs(k, pt0_req.gain * pt0_ins[k - PT0_asked_d])

\* C8: a PT0 whose delay time is 0 (the default, or set to 0.0 through
\* set_t0_time or set_t0_time_or_default) returns on every call the gain
\* times the input of that same call.
C8_ZeroDelayIsPureGain ==
    (PT0_ConfiguredFirst /\ pt0_req.T = F(0)) =>
        \A k \in 1..Len(pt0_outs) : PT0_OutIs(k, pt0_req.gain * pt0_ins[k])

\* C9: no transfer_td call aborts because the delay exceeds the buffer
\* capacity: every setter call that would make it so has failed.
C9_CapacityCheckedBySetters ==
    ~(pt0_st = "panic" /\ pt0_why = "capacity")

\* whether the outputs from call k on are 0 or the gain times inputs fed up
\* to their call, each input later than the one emitted before it (last)
RECURSIVE PT0_InOrder(_, _)
PT0_InOrder(k, last) ==
    IF k > Len(pt0_outs) THEN TRUE
    ELSE IF PT0_OutIs(k, 0) THEN PT0_InOrder(k + 1, last)
    ELSE LET from == {j \in (last + 1)..k : PT0_OutIs(k, pt0_req.gain * pt0_ins[j])}
         IN  /\ from # {}
             /\ PT0_InOrder(k + 1, CHOOSE j \in from : \A i \in from : j <= i)

\* C23: when setters change the delay of a PT0 between transfer_td calls
\* (the gain left alone), the outputs are 0 or the gain times earlier
\* inputs, in the order those inputs were fed and each at most once: no
\* sample left in the buffer from before a change comes out after a newer
\* one.
C23_DelayChangeKeepsOrder ==
    ~pt0_req.gain_late => PT0_InOrder(1, 0)

\* C22: a PT0 whose delay floor(t0_time / sample_time) is between 0 and the
\* capacity 1000 inclusive is stepped without failure, every buffer index
\* staying within the 1000 slots; transfer_td fails for capacity only when
\* the delay exceeds 1000.
C22_IndicesStayInBuffer ==
    /\ WLe(PT0_length(pt0), W(MAX_BUFFER_SIZE)) => pt0_st = "ok"
    /\ (pt0_st = "panic" /\ pt0_why = "capacity") =>
           WGt(PT0_length(pt0), W(MAX_BUFFER_SIZE))

-----------------------------------------------------------------------------
(* PT1: a run of setter and transfer_td calls on one element *)

PT1_TsArgs == {F(0), Fin(1, 2), F(1), F(2)}
PT1_T1Args == {F(0), Fin(1, 2), F(1), F(2)}
PT1_KpArgs == {0, 1, 2}
PT1_Inputs == {0, 1000, 3000}

InitPT1(tys) ==
    /\ pt1 \in {PT1_default(ty) : ty \in tys}
    /\ pt1_st = "ok"
    /\ pt1_why = ""
    /\ pt1_ins = <<>>
    /\ pt1_outs = <<>>
    /\ pt1_sets = 0
    /\ pt1_late = FALSE

\* a setter can be called at any time, before or between the transfer_td calls
PT1CanSet == pt1_st = "ok" /\ pt1_sets < MaxSetterCalls

\* what a setter call leaves: the element it returns, or the panic
PT1Configured(r) ==
    /\ pt1' = r.e
    /\ pt1_st' = r.st
    /\ pt1_why' = r.why
    /\ pt1_sets' = pt1_sets + 1
    /\ pt1_late' = (pt1_late \/ pt1_ins # <<>>)
    /\ UNCHANGED <<pt1_ins, pt1_outs, pt1_others>>

PT1SetSampleTime ==
    /\ PT1CanSet
    /\ \E ts \in PT1_TsArgs : PT1Configured(PT1_set_sample_time(pt1, ts))

PT1SetT1Time ==
    /\ PT1CanSet
    /\ \E t1 \in PT1_T1Args : PT1Configured(PT1_set_t1_time(pt1, t1))

PT1SetKp ==
    /\ PT1CanSet
    /\ \E kp \in PT1_KpArgs : PT1Configured(PT1_set_kp(pt1, kp, overflow_checks))

PT1Transfer ==
    /\ pt1_st = "ok"
    /\ Len(pt1_ins) < MaxSteps
    /\ \E u \in PT1_Inputs :
         LET r == PT1_transfer_td(pt1, u, overflow_checks)
         IN  /\ pt1' = r.e
             /\ pt1_st' = r.st
             /\ pt1_why' = r.why
             /\ pt1_ins' = Append(pt1_ins, u)
             /\ pt1_outs' = IF r.st = "ok" THEN Append(pt1_outs, r.out) ELSE pt1_outs
    /\ UNCHANGED <<pt1_sets, pt1_late, pt1_others>>

NextPT1 ==
    \/ PT1SetSampleTime
    \/ PT1SetT1Time
    \/ PT1SetKp
    \/ PT1Transfer

(* Claims about PT1 *)

PT1_OutIs(k, x) ==
    IF pt1.ty = "f64" THEN pt1_outs[k] = F(x) ELSE pt1_outs[k] = x

\* gain 1: kp as the default leaves it or set_kp(1) stores it
PT1_GainIsOne == pt1.kp = (IF pt1.ty = "f64" THEN F(1) ELSE FIX_KOMMA_SHIFT)

\* inputs whose doubly scaled product x * 2^10 * 2^10 an i32 holds
PT1_InputsSmall ==
    \A k \in 1..Len(pt1_ins) :
        Abs(pt1_ins[k]) <= I32Max \div (FIX_KOMMA_SHIFT * FIX_KOMMA_SHIFT)

\* C2: a PT1 with t1_time = sample_time (alpha = 1) and gain 1, stepped from
\* rest, returns its input on every call, in the f64 and in the i32 variant
\* (inputs small enough not to overflow i32).  The element is one that was
\* configured before its first step.
C2_UnitAlphaIsIdentity ==
    (~pt1_late /\ FEq(pt1.t1_time, pt1.sample_time) /\ PT1_GainIsOne /\ PT1_InputsSmall) =>
        \A k \in 1..Len(pt1_outs) : PT1_OutIs(k, pt1_ins[k])

\* C11: after any sequence of PT1 setter calls that all complete, the
\* configuration has sample_time > 0, gain > 0, and t1_time >= sample_time
\* or t1_time = 0.
C11_PT1SettersKeepConfigurationValid ==
    pt1_st = "ok" =>
        /\ FGt(pt1.sample_time, F(0))
        /\ IF pt1.ty = "f64" THEN FGt(pt1.kp, F(0)) ELSE pt1.kp > 0
        /\ FGe(pt1.t1_time, pt1.sample_time) \/ FEq(pt1.t1_time, F(0))

\* the doubly scaled product alpha * (kp * input - previous_output), exact
PT1_ScaledProduct(e, input) ==
    WMul(W(PT1_alpha_i32(e)), WSub(WMul(W(input), W(e.kp)), W(e.previous_output)))

\* the step is one of PT1<i32> that returned, and an i32 holds every value of
\* the computation the claim describes
PT1_FixedPointStep ==
    /\ pt1.ty = "i32" /\ pt1_st' = "ok"
    /\ Len(pt1_ins') = Len(pt1_ins) + 1
    /\ LET u == pt1_ins'[Len(pt1_ins')]
       IN  /\ WFitsI32(WMul(W(u), W(pt1.kp)))
           /\ WFitsI32(WSub(WMul(W(u), W(pt1.kp)), W(pt1.previous_output)))
           /\ WFitsI32(PT1_ScaledProduct(pt1, u))
           /\ WFitsI32(WAdd(W(pt1.previous_output), PT1_ScaledProduct(pt1, u)))

\* C21: in PT1<i32> only the doubly scaled product is shifted down, once:
\* every step stores previous_output + ((alpha * (kp * input -
\* previous_output)) >> 10) and returns the stored value >> 10.
C21_OnlyProductIsShifted ==
    [][PT1_FixedPointStep =>
         LET u == pt1_ins'[Len(pt1_ins')]
         IN  /\ pt1'.previous_output =
                    pt1.previous_output + Shr(WToI32(PT1_ScaledProduct(pt1, u)))
             /\ pt1_outs'[Len(pt1_outs')] = Shr(pt1'.previous_output)]_vars

-----------------------------------------------------------------------------
(* PT2: a run of setter and transfer_td calls on one element *)

\* The arguments the calls are made with.  They keep the value whose square
\* root set_t2_time_or_default takes the square of a rational in every run
\* the model follows (omega is 0, 1 or 1/16 before the first of these calls,
\* and the root is taken of omega itself), so that FSqrt is exact.
PT2_TsArgs == {F(0), Fin(1, 2)}
PT2_OmegaArgs == {F(-1), F(0), Fin(1, 16), F(4)}
PT2_DampingArgs == {F(-1), Fin(1, 2)}
PT2_T1Args == {Fin(1, 4), F(16)}
PT2_T2Args == {Fin(1, 4), F(1)}
PT2_KpArgs == {2}
\* the f64 inputs are small, to keep the exact values within the model's integers
PT2_Inputs(ty) == IF ty = "f64" THEN {0, 1} ELSE {0, 1, 3000}

InitPT2(tys) ==
    /\ pt2 \in {PT2_default(ty) : ty \in tys}
    /\ pt2_pre = pt2
    /\ pt2_st = "ok"
    /\ pt2_why = ""
    /\ pt2_ins = <<>>
    /\ pt2_outs = <<>>
    /\ pt2_sets = 0
    /\ pt2_t12 = [n |-> 0, t1 |-> F(0), t2 |-> F(0)]
    /\ pt2_late = FALSE

\* a setter can be called at any time, before or between the transfer_td calls
PT2CanSet == pt2_st = "ok" /\ pt2_sets < MaxSetterCalls

\* n = 1 after set_t1_time_or_default(t1), n = 2 when set_t2_time_or_default(t2)
\* is the next call, both arguments at least sample_time; n = 0 otherwise
PT2Called(op, arg) ==
    pt2_t12' =
        IF op = "set_t1_time_or_default" /\ FGe(arg, pt2.sample_time)
        THEN [n |-> 1, t1 |-> arg, t2 |-> F(0)]
        ELSE IF op = "set_t2_time_or_default" /\ pt2_t12.n = 1
                /\ FGe(arg, pt2.sample_time)
        THEN [pt2_t12 EXCEPT !.n = 2, !.t2 = arg]
        ELSE [n |-> 0, t1 |-> F(0), t2 |-> F(0)]

PT2Configured(op, arg, e) ==
    /\ PT2Called(op, arg)
    /\ pt2' = e
    /\ pt2_sets' = pt2_sets + 1
    /\ pt2_late' = (pt2_late \/ pt2_ins # <<>>)
    /\ UNCHANGED <<pt2_pre, pt2_st, pt2_why, pt2_ins, pt2_outs, pt2_others>>

PT2SetSampleTime ==
    /\ PT2CanSet
    /\ \E ts \in PT2_TsArgs : PT2Configured("set_sample_time_or_default", ts, PT2_set_sample_time_or_default(pt2, ts))

PT2SetOmega ==
    /\ PT2CanSet
    /\ \E omega \in PT2_OmegaArgs : PT2Configured("set_omega_or_default", omega, PT2_set_omega_or_default(pt2, omega))

PT2SetDamping ==
    /\ PT2CanSet
    /\ \E d \in PT2_DampingArgs : PT2Configured("set_damping_or_default", d, PT2_set_damping_or_default(pt2, d))

PT2SetT1Time ==
    /\ PT2CanSet
    /\ \E t1 \in PT2_T1Args : PT2Configured("set_t1_time_or_default", t1, PT2_set_t1_time_or_default(pt2, t1))

PT2SetT2Time ==
    /\ PT2CanSet
    /\ \E t2 \in PT2_T2Args :
         PT2Configured("set_t2_time_or_default", t2, PT2_set_t2_time_or_default(pt2, t2))

PT2SetKp ==
    /\ PT2CanSet
    /\ \E kp \in PT2_KpArgs :
         LET r == PT2_set_kp(pt2, kp, overflow_checks)
         IN  /\ pt2' = r.e
             /\ pt2_st' = r.st
             /\ pt2_why' = r.why
             /\ PT2Called("set_kp", F(kp))
    /\ pt2_sets' = pt2_sets + 1
    /\ pt2_late' = (pt2_late \/ pt2_ins # <<>>)
    /\ UNCHANGED <<pt2_pre, pt2_ins, pt2_outs, pt2_others>>

PT2Transfer ==
    /\ pt2_st = "ok"
    /\ Len(pt2_ins) < MaxPT2Steps
    /\ \E u \in PT2_Inputs(pt2.ty) :
         LET r == PT2_transfer_td(pt2, u, overflow_checks)
         IN  /\ pt2' = r.e
             /\ pt2_pre' = pt2
             /\ pt2_st' = r.st
             /\ pt2_why' = r.why
             /\ pt2_ins' = Append(pt2_ins, u)
             /\ pt2_outs' = IF r.st = "ok" THEN Append(pt2_outs, r.out) ELSE pt2_outs
    /\ UNCHANGED <<pt2_sets, pt2_t12, pt2_late, pt2_others>>

NextPT2 ==
    \/ PT2SetSampleTime
    \/ PT2SetOmega
    \/ PT2SetDamping
    \/ PT2SetT1Time
    \/ PT2SetT2Time
    \/ PT2SetKp
    \/ PT2Transfer

(* Claims about PT2 *)

\* the input of the last transfer_td call
PT2_LastInput == F(pt2_ins[Len(pt2_ins)])

\* the forward Euler step of the spec, from the state before the call
PT2_EulerDerivative(p, u) ==
    FAdd(p.previous_diff_output,
         FMul(p.sample_time,
              FAdd(FSub(FMul(F(-2), FMul(p.damping, FMul(p.omega, p.previous_diff_output))),
                        FMul(FMul(p.omega, p.omega), p.previous_output)),
                   FMul(p.kp, FMul(FMul(p.omega, p.omega), u)))))

PT2_EulerOutput(p, u) ==
    FAdd(p.previous_output, FMul(p.sample_time, FMul(p.omega, p.previous_diff_output)))

\* C7: PT2<f64>.transfer_td(u) computes both new state variables from the
\* state before the call: derivative' = derivative + dt*(-2*damping*omega*
\* derivative - omega^2*output + gain*omega^2*u), output' = output +
\* dt*omega*derivative (the old derivative), stores both and returns output'.
C7_EulerStepFromOldState ==
    (pt2.ty = "f64" /\ pt2_ins # <<>> /\ pt2_st = "ok") =>
        /\ pt2.previous_diff_output = PT2_EulerDerivative(pt2_pre, PT2_LastInput)
        /\ pt2.previous_output = PT2_EulerOutput(pt2_pre, PT2_LastInput)
        /\ pt2_outs[Len(pt2_outs)] = pt2.previous_output

\* a second step of a PT2<f64> whose derivative the step changes, so that the
\* old and the new derivative give different outputs
C7_Witness ==
    /\ pt2.ty = "f64" /\ Len(pt2_ins) >= 2 /\ pt2_st = "ok"
    /\ pt2.omega # F(0)
    /\ pt2_pre.previous_diff_output # F(0)
    /\ pt2.previous_diff_output # pt2_pre.previous_diff_output
    /\ pt2.previous_output # pt2_pre.previous_output


\* C12: after any sequence of PT2 setter calls from the default the stored
\* configuration has omega > 0, damping >= 0 and sample_time > 0.
C12_PT2SettersKeepConfigurationValid ==
    /\ FGt(pt2.omega, F(0))
    /\ FGe(pt2.damping, F(0))
    /\ FGt(pt2.sample_time, F(0))

\* the values PT2<f64> returns for the inputs ins, stepped from e
RECURSIVE PT2_f64_outputs(_, _)
PT2_f64_outputs(e, ins) ==
    IF ins = <<>> THEN <<>>
    ELSE LET r == PT2_transfer_td_f64(e, Head(ins))
         IN  <<r.out>> \o PT2_f64_outputs(r.e, Tail(ins))

\* the PT2<f64> at rest with the configuration and the gain of a PT2<i32>
PT2_f64_twin(e) ==
    [PT2_default("f64") EXCEPT !.omega = e.omega, !.damping = e.damping,
                               !.sample_time = e.sample_time,
                               !.kp = Fin(e.kp, FIX_KOMMA_SHIFT)]

\* C17: for the same omega, damping, sample_time and integer gain and the
\* same integer inputs from rest, PT2<i32> returns on every step the output
\* of PT2<f64> up to fixed-point truncation: they differ by at most 1.  The
\* element is one that was configured before its first step.
C17_FixedPointTracksFloat ==
    (pt2.ty = "i32" /\ ~pt2_late) =>
        LET ref == PT2_f64_outputs(PT2_f64_twin(pt2), pt2_ins)
        IN  \A k \in 1..Len(pt2_ins) :
               /\ k <= Len(pt2_outs)
               /\ FLe(FSub(F(pt2_outs[k]), ref[k]), F(1))
               /\ FGe(FSub(F(pt2_outs[k]), ref[k]), F(-1))

\* C18: set_t1_time_or_default(t1) followed by set_t2_time_or_default(t2),
\* both at least sample_time, stores omega = 1/sqrt(t1*t2) and damping =
\* (t1 + t2) / (2*t1*t2).
C18_TwoTimeConstants ==
    LET t1 == pt2_t12.t1
        t2 == pt2_t12.t2
    IN  pt2_t12.n = 2 =>
            /\ FEq(pt2.omega, FDiv(F(1), FSqrt(FMul(t1, t2))))
            /\ FEq(pt2.damping, FDiv(FAdd(t1, t2), FMul(F(2), FMul(t1, t2))))

-----------------------------------------------------------------------------
(* Hysteresis: a run of builder calls, build() calls and transfer calls on *)
(* the Hysteresis built last                                               *)

\* the (lower_fn, upper_fn) pairs the builder is made with
Hyst_Fns(ty) ==
    IF ty = "f64"
    THEN {<<LinearFn(F(1), F(0)), LinearFn(F(1), F(1))>>,
          <<LinearFn(Fin(1, 2), F(0)), LinearFn(F(1), F(1))>>}
    ELSE {<<LinearFn(F(1), F(0)), LinearFn(F(1), F(1))>>,
          <<LinearFn(F(1), F(0)), LinearFn(F(3), F(1))>>}

Hyst_SpreadArgs == {F(1), F(2)}
Hyst_XArgs == {F(-1), F(1)}
Hyst_DeltaArgs == {F(1)}
Hyst_Inputs(ty) ==
    IF ty = "f64" THEN {F(-3), F(-1), F(0), Fin(3, 2), F(3)}
    ELSE {F(-3), F(-1), F(0), F(1), F(3)}

\* HysteresisBuilder::new(lower_fn, upper_fn) has just been called
InitHystWith(b) ==
    /\ hb = b
    /\ hb_calls = 0
    /\ hy = HysteresisBuilder_build(hb)
    /\ hy_built = FALSE
    /\ hy_cur = FALSE
    /\ hy_pre = hy
    /\ hy_in = F(0)
    /\ hy_res = [called |-> FALSE, st |-> "ok", out |-> F(0)]
    /\ hy_band = [n |-> 0, from |-> "FromLower", left |-> FALSE]
    /\ hb_last = [op |-> "new", arg |-> F(0), pre |-> b]

InitHyst(tys) ==
    \E ty \in tys : \E fns \in Hyst_Fns(ty) :
       InitHystWith(HysteresisBuilder_new(ty, fns[1], fns[2]))

\* one builder, left alone
InitHystIdle ==
    InitHystWith(HysteresisBuilder_new("f64", LinearFn(F(1), F(0)), LinearFn(F(1), F(1))))

\* build() borrows the builder, so builder calls can follow it
HystCanCall == hb_calls < MaxBuilderCalls

\* a builder call returns the changed builder; a Hysteresis built before is
\* an object of its own and stays as it is
HystCalled(op, arg, b) ==
    /\ hb' = b
    /\ hb_last' = [op |-> op, arg |-> arg, pre |-> hb]
    /\ hb_calls' = hb_calls + 1
    /\ hy_cur' = FALSE
    /\ UNCHANGED <<hy, hy_pre, hy_built, hy_in, hy_res, hy_band, hy_others>>

HystSpreadX ==
    HystCanCall /\ \E s \in Hyst_SpreadArgs : HystCalled("spread_x", s, HysteresisBuilder_spread_x(hb, s))

HystSpreadY ==
    HystCanCall /\ \E s \in Hyst_SpreadArgs : HystCalled("spread_y", s, HysteresisBuilder_spread_y(hb, s))

HystCross == HystCanCall /\ HystCalled("cross", F(0), HysteresisBuilder_cross(hb))

HystLowerX ==
    HystCanCall /\ \E x \in Hyst_XArgs : HystCalled("lower_x", x, HysteresisBuilder_lower_x(hb, x))

HystUpperX ==
    HystCanCall /\ \E x \in Hyst_XArgs : HystCalled("upper_x", x, HysteresisBuilder_upper_x(hb, x))

HystLowerY ==
    HystCanCall /\ \E d \in Hyst_DeltaArgs : HystCalled("lower_y", d, HysteresisBuilder_lower_y(hb, d))

HystUpperY ==
    HystCanCall /\ \E d \in Hyst_DeltaArgs : HystCalled("upper_y", d, HysteresisBuilder_upper_y(hb, d))

HystUpperDirection == HystCanCall /\ HystCalled("upper_direction", F(0), HysteresisBuilder_upper_direction(hb))

\* build(): a new Hysteresis, on which no transfer call has been made
HystBuild ==
    /\ hy_built' = TRUE
    /\ hy_cur' = TRUE
    /\ hy' = HysteresisBuilder_build(hb)
    /\ hy_pre' = hy'
    /\ hy_in' = F(0)
    /\ hy_res' = [called |-> FALSE, st |-> "ok", out |-> F(0)]
    /\ hy_band' = [n |-> 0, from |-> hb.direction, left |-> FALSE]
    /\ UNCHANGED <<hb, hb_calls, hb_last, hy_others>>

\* whether u is strictly between the thresholds
Hyst_InBand(h, u) == FLt(h.lower, u) /\ FLt(u, h.upper)

HystTransfer ==
    /\ hy_built
    /\ \E u \in Hyst_Inputs(hy.ty) :
         LET r == Hysteresis_transfer(hy, u)
         IN  /\ hy' = r.e
             /\ hy_pre' = hy
             /\ hy_in' = u
             /\ hy_res' = [called |-> TRUE, st |-> r.st, out |-> r.out]
             /\ hy_band' = IF Hyst_InBand(hy, u)
                           THEN [hy_band EXCEPT !.n = IF @ < MaxSteps THEN @ + 1 ELSE @]
                           ELSE [n |-> 0, from |-> r.e.direction,
                                 left |-> FGt(hy.lower, u) \/ FLt(hy.upper, u)]
    /\ UNCHANGED <<hb, hb_calls, hy_built, hy_cur, hb_last, hy_others>>

NextHyst ==
    \/ HystSpreadX
    \/ HystSpreadY
    \/ HystCross
    \/ HystLowerX
    \/ HystUpperX
    \/ HystLowerY
    \/ HystUpperY
    \/ HystUpperDirection
    \/ HystBuild
    \/ HystTransfer

-----------------------------------------------------------------------------
(* Claims about Hysteresis *)

\* the segment of branch d at u
Hyst_Segment(h, d, u) ==
    IF d = "FromLower" THEN LinearFn_eval(h.lower_fn, u)
    ELSE LinearFn_eval(h.upper_fn, u)

\* C3: transfer(u) applies its rules in this order: u below the lower
\* threshold sets the branch to FromLower and returns the lower segment;
\* otherwise u above the upper threshold sets the branch to FromUpper and
\* returns the upper segment; otherwise the branch is kept and its segment is
\* returned.  With inverted thresholds an input satisfying both tests is
\* handled by the first rule.  Thresholds and segments never change.
C3_TransferRuleOrder ==
    hy_res.called =>
      /\ hy_res.st = "ok"
      /\ [hy EXCEPT !.direction = hy_pre.direction] = hy_pre
      /\ IF FLt(hy_in, hy_pre.lower)
         THEN /\ hy.direction = "FromLower"
              /\ FEq(hy_res.out, LinearFn_eval(hy_pre.lower_fn, hy_in))
         ELSE IF FGt(hy_in, hy_pre.upper)
         THEN /\ hy.direction = "FromUpper"
              /\ FEq(hy_res.out, LinearFn_eval(hy_pre.upper_fn, hy_in))
         ELSE /\ hy.direction = hy_pre.direction
              /\ FEq(hy_res.out, Hyst_Segment(hy_pre, hy_pre.direction, hy_in))

\* inverted thresholds, an input below the lower and above the upper one,
\* arriving on the upper branch and answered from the lower segment
C3_Witness ==
    /\ hy_res.called
    /\ FGt(hy_pre.lower, hy_pre.upper)
    /\ FLt(hy_in, hy_pre.lower) /\ FGt(hy_in, hy_pre.upper)
    /\ hy_pre.direction = "FromUpper"
    /\ hy.direction = "FromLower"
    /\ ~FEq(hy_res.out, LinearFn_eval(hy_pre.upper_fn, hy_in))

\* C4: the branch chosen when the input last left the band is kept by every
\* later input strictly between the thresholds: such a call returns that
\* branch's segment and leaves the branch as it was, until an input below
\* the lower (above the upper) threshold selects the other branch.
C4_BandKeepsBranch ==
    /\ hy_built => hy.direction = hy_band.from
    /\ (hy_res.called /\ Hyst_InBand(hy_pre, hy_in)) =>
          /\ hy_pre.direction = hy_band.from
          /\ FEq(hy_res.out, Hyst_Segment(hy_pre, hy_band.from, hy_in))

\* the input went above the upper threshold and has since been inside the
\* band for two calls, which were answered from the upper segment
C4_Witness ==
    /\ hy_res.called
    /\ hy_band.left /\ hy_band.from = "FromUpper" /\ hy_band.n >= 2
    /\ Hyst_InBand(hy_pre, hy_in)
    /\ FEq(hy_res.out, LinearFn_eval(hy.upper_fn, hy_in))
    /\ ~FEq(hy_res.out, LinearFn_eval(hy.lower_fn, hy_in))

(* Claims about HysteresisBuilder *)

\* C13: every Hysteresis that build() produces, after any sequence of
\* builder calls, has lower <= upper.
C13_LowerNotAboveUpper ==
    hy_built => FLe(hy.lower, hy.upper)

\* C14: with neither threshold set explicitly, build() after spread_x(S)
\* yields lower = midpoint - S/2 and upper = midpoint + S/2, so that
\* upper - lower = S, for floating and for integer N.
C14_SpreadXIsSymmetric ==
    (hy_cur /\ hb_last.op = "spread_x" /\ ~hb.lower.some /\ ~hb.upper.some) =>
        /\ FEq(hy.lower, FSub(hb.midpoint, FDiv(hb_last.arg, F(2))))
        /\ FEq(hy.upper, FAdd(hb.midpoint, FDiv(hb_last.arg, F(2))))
        /\ FEq(FSub(hy.upper, hy.lower), hb_last.arg)

Hyst_SlopesDiffer(b) == ~FEq(b.lower_fn.m, b.upper_fn.m)

\* C15: with unequal slopes spread_y(S) is spread_x(S / (upper_fn.m -
\* lower_fn.m)): the builders and the thresholds they build are the same;
\* with equal slopes spread_y leaves the spread as it was.
C15_SpreadYIsScaledSpreadX ==
    hb_last.op = "spread_y" =>
        LET p == hb_last.pre
            sx == HysteresisBuilder_spread_x(
                      p, NDiv(p.ty, hb_last.arg, FSub(p.upper_fn.m, p.lower_fn.m)))
        IN  IF Hyst_SlopesDiffer(p)
            THEN /\ hb = sx
                 /\ hy_cur => FEq(hy.lower, HysteresisBuilder_build(sx).lower)
                 /\ hy_cur => FEq(hy.upper, HysteresisBuilder_build(sx).upper)
            ELSE hb.spread = p.spread

\* slopes 0.5 and 1.0, spread_y(1.0): lower = -1.0, upper = 1.0
C15_Witness ==
    /\ hb_last.op = "spread_y" /\ hb_last.arg = F(1)
    /\ hb.lower_fn.m = Fin(1, 2) /\ hb.upper_fn.m = F(1)
    /\ ~hb.lower.some /\ ~hb.upper.some /\ hb.midpoint = F(0)
    /\ hb.spread = F(2)
    /\ hy_cur /\ hy.lower = F(-1) /\ hy.upper = F(1)

\* the exact quotient (n_lower - n_upper + d) / (m_upper - m_lower)
Hyst_Quotient(p, d) ==
    FDiv(FAdd(FSub(p.lower_fn.n, p.upper_fn.n), d), FSub(p.upper_fn.m, p.lower_fn.m))

\* upper_fn(x) - lower_fn(x)
Hyst_Gap(p, x) == FSub(LinearFn_eval(p.upper_fn, x), LinearFn_eval(p.lower_fn, x))

\* the value the last cross(), lower_y(d) or upper_y(d) call left in its field
Hyst_Stored ==
    IF hb_last.op = "cross" THEN hb.midpoint
    ELSE IF hb_last.op = "lower_y" THEN hb.lower.v
    ELSE hb.upper.v

\* the last call changed its own field of the builder and no other
Hyst_OnlyOwnField ==
    /\ hb_last.op = "cross" => hb = [hb_last.pre EXCEPT !.midpoint = Hyst_Stored]
    /\ hb_last.op = "lower_y" => hb = [hb_last.pre EXCEPT !.lower = Some(Hyst_Stored)]
    /\ hb_last.op = "upper_y" => hb = [hb_last.pre EXCEPT !.upper = Some(Hyst_Stored)]

Hyst_Abs(a) == IF FLt(a, F(0)) THEN FNeg(a) ELSE a

\* C16 as claimed: with unequal slopes cross() stores as midpoint, lower_y(d)
\* as lower and upper_y(d) as upper threshold x = (n_lower - n_upper + d) /
\* (m_upper - m_lower), d = 0 for cross(), the input where upper_fn(x) -
\* lower_fn(x) = d; with equal slopes the call leaves every builder field
\* unchanged.
C16_OffsetThresholds ==
    hb_last.op \in {"cross", "lower_y", "upper_y"} =>
        IF Hyst_SlopesDiffer(hb_last.pre)
        THEN /\ Hyst_OnlyOwnField
             /\ FEq(Hyst_Stored, Hyst_Quotient(hb_last.pre, hb_last.arg))
             /\ FEq(Hyst_Gap(hb_last.pre, Hyst_Stored), hb_last.arg)
        ELSE hb = hb_last.pre

\* C16 amended: with unequal slopes the call stores in its own field, and
\* changes no other, the quotient computed in N.  For f64 that is the input
\* where upper_fn(x) - lower_fn(x) = d.  For an integer N it is the quotient
\* rounded towards zero, where upper_fn(x) - lower_fn(x) is less than
\* |m_upper - m_lower| away from d.  With equal slopes the call leaves every
\* builder field unchanged.
C16_OffsetThresholdsInN ==
    hb_last.op \in {"cross", "lower_y", "upper_y"} =>
        LET p == hb_last.pre
            d == hb_last.arg
        IN  IF Hyst_SlopesDiffer(p)
            THEN /\ Hyst_OnlyOwnField
                 /\ p.ty = "f64" =>
                       /\ FEq(Hyst_Stored, Hyst_Quotient(p, d))
                       /\ FEq(Hyst_Gap(p, Hyst_Stored), d)
                 /\ p.ty = "i32" =>
                       /\ Hyst_Stored = F(FTrunc(Hyst_Quotient(p, d)))
                       /\ FLt(Hyst_Abs(FSub(Hyst_Gap(p, Hyst_Stored), d)),
                              Hyst_Abs(FSub(p.upper_fn.m, p.lower_fn.m)))
            ELSE hb = p

\* cross() on integer segments u and 3u + 1, which meet at -1/2: the
\* midpoint stored is 0, where the segments are 1 apart
C16_Witness ==
    /\ hb_last.op = "cross"
    /\ hb.ty = "i32" /\ Hyst_SlopesDiffer(hb)
    /\ hb.lower_fn = LinearFn(F(1), F(0)) /\ hb.upper_fn = LinearFn(F(3), F(1))
    /\ hb.midpoint = F(0)
    /\ FEq(Hyst_Gap(hb, hb.midpoint), F(1))
    /\ ~FEq(Hyst_Quotient(hb, F(0)), hb.midpoint)

\* C19: with exactly one threshold set explicitly build() keeps it and puts
\* the other one full spread away: (L, L + S) after lower_x(L), (U - S, U)
\* after upper_x(U); with both set explicitly both are kept.
C19_OneThresholdOneSpreadAway ==
    /\ (hy_cur /\ hb.lower.some /\ ~hb.upper.some) =>
          /\ hy.lower = hb.lower.v
          /\ FEq(hy.upper, FAdd(hb.lower.v, hb.spread))
    /\ (hy_cur /\ ~hb.lower.some /\ hb.upper.some) =>
          /\ hy.upper = hb.upper.v
          /\ FEq(hy.lower, FSub(hb.upper.v, hb.spread))
    /\ (hy_cur /\ hb.lower.some /\ hb.upper.some) =>
          /\ hy.lower = hb.lower.v
          /\ hy.upper = hb.upper.v

\* spread_x(S) then lower_x(L), built: (L, L + S)
C19_Witness ==
    /\ hb_last.op = "lower_x" /\ hb.lower = Some(hb_last.arg)
    /\ ~hb.upper.some
    /\ ~FEq(hb.spread, F(0))
    /\ hy_cur
    /\ hy.lower = hb_last.arg
    /\ hy.upper = FAdd(hb_last.arg, hb.spread)

-----------------------------------------------------------------------------
(* Handles: a caller configures an element, boxes it, clones handles, steps *)
(* the elements through their handles and compares the handles.             *)

Box_Kinds == {"PT0", "PT1", "PT2"}
Box_T0Args == {F(1)}
Box_T1Args == {F(0), F(2)}
Box_OmegaArgs == {Fin(1, 2)}
Box_KpArgs == {2}
Box_Inputs == {0, 1}
Box_Handles == {"a", "b"}

Elem_default(kind) ==
    IF kind = "PT0" THEN PT0_default("f64")
    ELSE IF kind = "PT1" THEN PT1_default("f64")
    ELSE PT2_default("f64")

InitBox(kinds) ==
    /\ bx_elem \in {Elem_default(k) : k \in kinds}
    /\ bx_sets = 0
    /\ bx_heap = <<>>
    /\ bx_h = [h \in Box_Handles |-> 0]
    /\ bx_alone = [h \in Box_Handles |-> bx_elem]
    /\ bx_step = [h |-> "", u |-> 0, st |-> "ok", out |-> F(0), alone |-> F(0)]
    /\ bx_steps = [h \in Box_Handles |-> 0]
    /\ bx_cloned = FALSE
    /\ bx_cmp = [done |-> FALSE, eq |-> [x \in Box_Handles |-> [y \in Box_Handles |-> FALSE]]]

BoxCanSet == bx_sets < MaxSetterCalls /\ bx_h["a"] = 0

BoxSet(e) ==
    /\ bx_elem' = e
    /\ bx_sets' = bx_sets + 1
    /\ UNCHANGED <<bx_heap, bx_h, bx_alone, bx_step, bx_steps, bx_cloned, bx_cmp,
                   bx_others>>

BoxSetT0Time ==
    /\ BoxCanSet /\ bx_elem.kind = "PT0"
    /\ \E t \in Box_T0Args : BoxSet(PT0_set_t0_time(bx_elem, t).e)

BoxSetT1Time ==
    /\ BoxCanSet /\ bx_elem.kind = "PT1"
    /\ \E t \in Box_T1Args : PT1_set_t1_time(bx_elem, t).st = "ok"
                               /\ BoxSet(PT1_set_t1_time(bx_elem, t).e)

BoxSetOmega ==
    /\ BoxCanSet /\ bx_elem.kind = "PT2"
    /\ \E w \in Box_OmegaArgs : BoxSet(PT2_set_omega_or_default(bx_elem, w))

BoxSetKp ==
    /\ BoxCanSet
    /\ \E kp \in Box_KpArgs :
         BoxSet(IF bx_elem.kind = "PT0" THEN PT0_set_kp(bx_elem, kp, overflow_checks).e
                ELSE IF bx_elem.kind = "PT1" THEN PT1_set_kp(bx_elem, kp, overflow_checks).e
                ELSE PT2_set_kp(bx_elem, kp, overflow_checks).e)

BoxMade(h, r, alone, cloned) ==
    /\ bx_cloned' = cloned
    /\ bx_heap' = r.heap
    /\ bx_h' = [bx_h EXCEPT ![h] = r.handle]
    /\ bx_alone' = [bx_alone EXCEPT ![h] = alone]
    /\ bx_cmp' = [bx_cmp EXCEPT !.done = FALSE]
    /\ UNCHANGED <<bx_elem, bx_sets, bx_step, bx_steps, bx_others>>

\* Box::new(element)
BoxNew ==
    /\ bx_h["a"] = 0
    /\ BoxMade("a", Box_new(bx_heap, bx_elem), bx_elem, FALSE)

\* BoxedTransferTimeDomain::<f64>::default()
BoxDefault ==
    /\ bx_h["a"] # 0 /\ bx_h["b"] = 0
    /\ BoxMade("b", Box_default(bx_heap), PT1_default("f64"), FALSE)

\* b = a.clone(); a's element at that moment is what b starts from
BoxClone ==
    /\ bx_h["a"] # 0 /\ bx_h["b"] = 0
    /\ BoxMade("b", Box_clone(bx_heap, bx_h["a"]), bx_heap[bx_h["a"]], TRUE)

\* handle.transfer_td(u)
BoxTransfer ==
    /\ bx_steps["a"] + bx_steps["b"] < MaxHandleSteps
    /\ bx_step.st = "ok"
    /\ \E h \in Box_Handles : \E u \in Box_Inputs :
         /\ bx_h[h] # 0
         /\ LET r == Elem_transfer_td(bx_heap[bx_h[h]], u, overflow_checks)
                q == Elem_transfer_td(bx_alone[h], u, overflow_checks)
            IN  /\ bx_heap' = [bx_heap EXCEPT ![bx_h[h]] = r.e]
                /\ bx_alone' = [bx_alone EXCEPT ![h] = q.e]
                /\ bx_step' = [h |-> h, u |-> u, st |-> r.st, out |-> r.out,
                               alone |-> q.out]
                /\ bx_steps' = [bx_steps EXCEPT ![h] = @ + 1]
    /\ bx_cmp' = [bx_cmp EXCEPT !.done = FALSE]
    /\ UNCHANGED <<bx_elem, bx_sets, bx_h, bx_cloned, bx_others>>

\* x == y for every pair of handles
BoxCompare ==
    /\ bx_h["a"] # 0 /\ bx_h["b"] # 0
    /\ ~bx_cmp.done
    /\ bx_cmp' = [done |-> TRUE,
                  eq |-> [x \in Box_Handles |-> [y \in Box_Handles |->
                             Box_eq(bx_heap, bx_h[x], bx_h[y])]]]
    /\ UNCHANGED <<bx_elem, bx_sets, bx_heap, bx_h, bx_alone, bx_step, bx_steps,
                   bx_cloned, bx_others>>

NextBox ==
    \/ BoxSetT0Time
    \/ BoxSetT1Time
    \/ BoxSetOmega
    \/ BoxSetKp
    \/ BoxNew
    \/ BoxDefault
    \/ BoxClone
    \/ BoxTransfer
    \/ BoxCompare

-----------------------------------------------------------------------------
(* Claims about the handles *)

Box_Made == {h \in Box_Handles : bx_h[h] # 0}

\* C5: a clone owns an independent copy: whatever is stepped through the
\* other handle, the element behind a handle is in the state, and the call
\* through it returns the value, it would have had this handle alone been
\* stepped.
C5_CloneIsIndependent ==
    /\ \A h \in Box_Made : bx_heap[bx_h[h]] = bx_alone[h]
    /\ bx_step.h # "" => bx_step.out = bx_step.alone

\* b is a clone of a, b has been stepped and then a, and they now differ
C5_Witness ==
    /\ bx_cloned
    /\ bx_steps["b"] >= 1
    /\ bx_step.h = "a" /\ bx_step.st = "ok"
    /\ bx_heap[bx_h["a"]] # bx_heap[bx_h["b"]]
    /\ bx_heap[bx_h["b"]] # bx_elem
    /\ ~FEq(bx_step.out, F(0))

\* C6: two handles are equal exactly when they hold the same kind of element
\* with equal parameters and equal internal state; the relation is reflexive
\* and symmetric over the handles that setters and steps can produce.
C6_HandleEquality ==
    bx_cmp.done =>
      \A x, y \in Box_Made :
         /\ bx_cmp.eq[x][y] <=> (bx_heap[bx_h[x]] = bx_heap[bx_h[y]])
         /\ bx_cmp.eq[x][x]
         /\ bx_cmp.eq[x][y] <=> bx_cmp.eq[y][x]

-----------------------------------------------------------------------------
(* Claims about every element *)

\* C10: stepping never fails: Hysteresis::transfer always returns Ok, and
\* transfer_td of PT1 and PT2, f64 and i32, always returns a value: no
\* failed conversion from i64 to i32 and no abort on arithmetic overflow.
C10_SteppingNeverFails ==
    /\ hy_res.st = "ok"
    /\ ~(pt1_ins # <<>> /\ pt1_st = "panic")
    /\ ~(pt2_ins # <<>> /\ pt2_st = "panic")

-----------------------------------------------------------------------------
(* TimeRange: a run of setter and next() calls on one range *)

\* the ends of the range are multiples of 100, so that the interval
\* set_number_of_samples stores is a value an f64 holds exactly
TR_StartArgs == {F(-100), F(300)}
TR_EndArgs == {F(300), F(-200)}
TR_SamplesArgs == {NoneUsize, SomeUsize(0), SomeUsize(10)}
TR_IntervalArgs == {F(-1), F(0), Fin(1, 2), F(5000)}
TR_UnitArgs == {"sec"}

InitTR ==
    /\ tr = TimeRange_default
    /\ tr_st = "ok"
    /\ tr_sets = 0
    /\ tr_asked = NoneUsize
    /\ tr_items = 0
    /\ tr_last = None
    /\ tr_done = FALSE

\* a setter can be called at any time, before or between the next() calls
TRCanSet == tr_st = "ok" /\ tr_sets < MaxRangeCalls

\* asked is what the range remembers as asked for: only a range that has
\* not been iterated yet does
TRConfigured(r, asked) ==
    /\ tr' = r.e
    /\ tr_st' = r.st
    /\ tr_sets' = tr_sets + 1
    /\ tr_asked' = IF r.st = "ok" /\ tr_items = 0 /\ ~tr_done THEN asked ELSE NoneUsize
    /\ UNCHANGED <<tr_items, tr_last, tr_done, tr_others>>

TRSetUnitOfMeasurement ==
    /\ TRCanSet
    /\ \E u \in TR_UnitArgs :
         TRConfigured(Ok(TimeRange_set_unit_of_measurement(tr, u), 0), tr_asked)

TRSetStart ==
    /\ TRCanSet
    /\ \E x \in TR_StartArgs : TRConfigured(TimeRange_set_start(tr, x), NoneUsize)

TRSetEnd ==
    /\ TRCanSet
    /\ \E x \in TR_EndArgs : TRConfigured(TimeRange_set_end(tr, x), NoneUsize)

TRSetNumberOfSamples ==
    /\ TRCanSet
    /\ \E n \in TR_SamplesArgs :
         TRConfigured(Ok(TimeRange_set_number_of_samples(tr, n), 0), n)

TRSetSamplingInterval ==
    /\ TRCanSet
    /\ \E x \in TR_IntervalArgs : TRConfigured(TimeRange_set_sampling_interval(tr, x), NoneUsize)

TRNext ==
    /\ tr_st = "ok"
    /\ tr_items < MaxItems
    /\ LET r == TimeRange_next(tr)
       IN  /\ tr' = r.e
           /\ tr_last' = r.item
           /\ tr_done' = ~r.item.some
           /\ tr_items' = IF r.item.some THEN tr_items + 1 ELSE tr_items
    /\ UNCHANGED <<tr_st, tr_sets, tr_asked, tr_others>>

NextTR ==
    \/ TRSetUnitOfMeasurement
    \/ TRSetStart
    \/ TRSetEnd
    \/ TRSetNumberOfSamples
    \/ TRSetSamplingInterval
    \/ TRNext

(* Claims about TimeRange *)

\* C20: len() is the number of values the iterator yields before None: a
\* range built with set_start, set_end and set_number_of_samples(Some(n)),
\* n > 0, reports len() = n and, iterated to exhaustion, yields exactly n
\* values.
C20_LenIsNumberOfItems ==
    (tr_st = "ok" /\ tr_asked.some /\ tr_asked.v > 0) =>
        /\ TimeRange_len(tr) = W(tr_asked.v)
        /\ tr_done => tr_items = tr_asked.v

\* C24: iterating a TimeRange terminates, whatever setter calls that do not
\* panic configured it (a zero or negative sampling interval and start = end
\* included): repeated next() calls end in None.  The interval is fixed
\* while iterating and None needs current > end, so every next() call that
\* yields a value moves current up.
C24_IterationTerminates ==
    [][tr_items' = tr_items + 1 => FGt(tr'.current, tr.current)]_vars

-----------------------------------------------------------------------------
(* The specifications: one element is configured and stepped, the others    *)
(* stay as constructed.                                                     *)

InitSpecPT0 ==
    /\ overflow_checks \in BOOLEAN
    /\ InitPT0(NumTypes) /\ InitPT1({"f64"}) /\ InitPT2({"f64"})
    /\ InitHystIdle
    /\ InitBox({"PT1"})
    /\ InitTR

SpecPT0 == InitSpecPT0 /\ [][NextPT0]_vars

InitSpecPT1 ==
    /\ overflow_checks \in BOOLEAN
    /\ InitPT0({"f64"}) /\ InitPT1(NumTypes) /\ InitPT2({"f64"})
    /\ InitHystIdle
    /\ InitBox({"PT1"})
    /\ InitTR

SpecPT1 == InitSpecPT1 /\ [][NextPT1]_vars

InitSpecPT2 ==
    /\ overflow_checks \in BOOLEAN
    /\ InitPT0({"f64"}) /\ InitPT1({"f64"}) /\ InitPT2(NumTypes)
    /\ InitHystIdle
    /\ InitBox({"PT1"})
    /\ InitTR

SpecPT2 == InitSpecPT2 /\ [][NextPT2]_vars

InitSpecHyst ==
    /\ overflow_checks = TRUE
    /\ InitPT0({"f64"}) /\ InitPT1({"f64"}) /\ InitPT2({"f64"})
    /\ InitHyst(NumTypes)
    /\ InitBox({"PT1"})
    /\ InitTR

SpecHyst == InitSpecHyst /\ [][NextHyst]_vars

InitSpecBox ==
    /\ overflow_checks \in BOOLEAN
    /\ InitPT0({"f64"}) /\ InitPT1({"f64"}) /\ InitPT2({"f64"})
    /\ InitHystIdle
    /\ InitBox(Box_Kinds)
    /\ InitTR

SpecBox == InitSpecBox /\ [][NextBox]_vars

InitSpecTR ==
    /\ overflow_checks = TRUE
    /\ InitPT0({"f64"}) /\ InitPT1({"f64"}) /\ InitPT2({"f64"})
    /\ InitHystIdle
    /\ InitBox({"PT1"})
    /\ InitTR

SpecTR == InitSpecTR /\ [][NextTR]_vars

=============================================================================
